---- MODULE Spec2Model ----
(***************************************************************************)
(* Model of backend/main.py: the /pipelines/parse handler parse_pipeline   *)
(* and the cycle check is_dag with its nested recursive has_cycle_dfs.     *)
(*                                                                         *)
(* A node is modelled by its id (node.id is the only NodeData field that   *)
(* is_dag and the counts read), an edge by the record [source, target]     *)
(* (the only EdgeData fields is_dag reads).  Before it counts and calls    *)
(* is_dag, parse_pipeline prints every node's id, type and data and every  *)
(* edge's source, target, sourceHandle and targetHandle (main.py 82-97).   *)
(* After is_dag it prints the result (104), and in the except clause it    *)
(* prints the error (114) before it raises the HTTPException (115).  The   *)
(* printed text is not kept; what the model keeps of it is whether a print *)
(* call raises (text the output stream cannot encode, a data value whose   *)
(* repr fails, a closed or broken stream), and with what message:          *)
(* print_error[r], one entry for each of the three places.  An exception   *)
(* raised at 82-97 is caught at 113 and is_dag is never called; one raised *)
(* at 104 is caught at 113 after is_dag has returned; one raised at 114    *)
(* leaves the handler, and no HTTPException is raised.                     *)
(*                                                                         *)
(* The code is modelled twice, over the same helper operators:             *)
(*   - as operators (is_dag, parse_pipeline): the value a call returns;    *)
(*   - as a state machine that runs one or more requests step by step,     *)
(*     one step per statement that reads or writes graph or color.         *)
(***************************************************************************)
EXTENDS Naturals, Integers, Sequences, FiniteSets, TLC

VARIABLES
    nodes,      \* nodes[r]: pipeline.nodes of request r, a sequence of node ids
    edges,      \* edges[r]: pipeline.edges of request r, a sequence of [source, target]
    pc,         \* pc[r]: "start" | "loop" | "dfs" | "done" (the dict is returned)
                \* | "failed" (HTTPException raised) | "raised" (another exception)
    allocated,  \* allocated[s]: the locals graph and color of activation s are bound
    graph,      \* graph[s]: the dict graph of activation s (id -> sequence of ids)
    color,      \* color[s]: the dict color of activation s (id -> 0 | 1 | 2)
    i,          \* i[r]: position of the "for node in nodes" loop of is_dag
    stack,      \* stack[r]: the has_cycle_dfs frames, [node_id, k], innermost last
    response,   \* response[r]: <<>> until the handler answers, then <<the answer>>
    entered,    \* entered[r]: history of the ids has_cycle_dfs was called on
    callers,    \* callers[r]: the frames in use when parse_pipeline is called for r
    print_error \* print_error[r]: what the print calls do for request r, a record
                \* [request (lines 82-97), result (line 104), error (line 114)],
                \* each <<>> if the print returns, <<str(e)>> if it raises e

vars == <<callers, print_error, nodes, edges, pc, allocated, graph, color, i, stack, response, entered>>

(***************************************************************************)
(* Colours (main.py 38-40, 51).                                            *)
(***************************************************************************)
White == 0
Gray == 1
Black == 2

(***************************************************************************)
(* CPython's default recursion limit (sys.getrecursionlimit(); the program *)
(* never changes it), and the frames the handler itself puts under the     *)
(* first has_cycle_dfs frame: parse_pipeline and is_dag.  The frames under *)
(* parse_pipeline depend on who calls it (1 from module level, more on a   *)
(* worker thread and under the server): they are the state callers[r],     *)
(* fixed when the request is received.                                     *)
(***************************************************************************)
RecursionLimit == 1000
HandlerFrames == 2

(***************************************************************************)
(* Helpers shared by the operators and by the state machine.               *)
(***************************************************************************)
NodeIds(ns) == {ns[k] : k \in 1..Len(ns)}

\* main.py 42: "if not nodes or not edges"
\* (variant: only the node list is tested)
EarlyReturnNodesOnly(ns, es) == ns = <<>>
EarlyReturn(ns, es) == ns = <<>> \/ es = <<>>

\* main.py 48: "if edge.source in graph and edge.target in graph"
\* (variants: an edge from a node to itself is dropped; the target is not tested)
EdgeKeptNoSelfLoop(g, e) == e.source \in DOMAIN g /\ e.target \in DOMAIN g /\ e.source # e.target
EdgeKeptSourceOnly(g, e) == e.source \in DOMAIN g
EdgeKept(g, e) == e.source \in DOMAIN g /\ e.target \in DOMAIN g

\* main.py 46: "graph = {node.id: [] for node in nodes}"
EmptyGraph(ns) == [n \in NodeIds(ns) |-> <<>>]

\* main.py 46-49: the loop appends, in input order, the target of every kept
\* edge to the list of its source, so graph[n] is the targets of the kept
\* edges that leave n, in input order (the keys of graph never change, so
\* the test of main.py 48 is the test against the empty graph)
BuildGraph(ns, es) ==
    LET g0 == EmptyGraph(ns)
        kept == SelectSeq(es, LAMBDA e : EdgeKept(g0, e))
    IN [n \in DOMAIN g0 |->
           LET out == SelectSeq(kept, LAMBDA e : e.source = n)
           IN [k \in 1..Len(out) |-> out[k].target]]

\* main.py 52: "color = {node.id: 0 for node in nodes}"
InitColor(ns) == [n \in NodeIds(ns) |-> White]

\* main.py 55: "color[node_id] = 1"
MarkInProgress(c, n) == [c EXCEPT ![n] = Gray]

\* main.py 63: "color[node_id] = 2"
\* (variant: the node is left gray)
MarkDoneForgotten(c, n) == c
MarkDone(c, n) == [c EXCEPT ![n] = Black]

\* main.py 57: the "for neighbor in graph[node_id]" loop is over at position k
\* (variant: the loop ends after the first neighbour)
NeighborsExhaustedAfterFirst(g, n, k) == k > 1 \/ k > Len(g[n])
NeighborsExhausted(g, n, k) == k > Len(g[n])

\* main.py 58: "if color[neighbor] == 1"
\* (variant: any visited neighbour counts, as with a single visited set)
IsBackEdgeAnyVisited(c, nb) == c[nb] # White
IsBackEdge(c, nb) == c[nb] = Gray

\* main.py 60 and 68: "color[...] == 0"
IsUnvisited(c, n) == c[n] = White

\* main.py 67: the "for node in nodes" loop is over at position k
\* (variant: only the first node seeds a traversal)
NodesExhaustedAfterFirst(ns, k) == k > 1 \/ k > Len(ns)
NodesExhausted(ns, k) == k > Len(ns)

\* main.py 100: "num_nodes = len(pipeline.nodes)"
\* (variant: the distinct ids are counted)
num_nodes_distinct(ns) == Cardinality(NodeIds(ns))
num_nodes(ns) == Len(ns)

\* main.py 101: "num_edges = len(pipeline.edges)"
num_edges(es) == Len(es)

\* main.py 107-111: the dict the handler returns
Answer(nn, ne, d) == [num_nodes |-> nn, num_edges |-> ne, is_dag |-> d]

\* main.py 113-115: the HTTPException the handler raises on any exception
\* with detail = f"Error processing pipeline: {str(e)}"
Failure(e) == [status_code |-> 500, detail |-> "Error processing pipeline: " \o e]

\* main.py 114: the print in the except clause raises e; e leaves the
\* handler and line 115 is not reached
Escapes(e) == [exception |-> e]

\* main.py 113-115: the except clause entered with the exception of text e;
\* pe.error is what the print at 114 does
Except(e, pe) == IF pe.error # <<>> THEN Escapes(pe.error[1]) ELSE Failure(e)

\* main.py 104-111: after is_dag returned d; pe.result is what the print at
\* 104 does
Return(nn, ne, d, pe) ==
    IF pe.result # <<>> THEN Except(pe.result[1], pe) ELSE Answer(nn, ne, d)

\* where a request is once the handler has ended with outcome x
After(x) ==
    IF "exception" \in DOMAIN x THEN "raised"
    ELSE IF "status_code" \in DOMAIN x THEN "failed"
    ELSE "done"

\* str(e) of the RecursionError the interpreter raises
RecursionErrorText == "maximum recursion depth exceeded"

\* main.py 60, 69: a further has_cycle_dfs frame on top of `depth` of them,
\* of the handler's frames and of `below` frames of its callers exceeds the
\* interpreter's recursion limit (RecursionError)
TooDeep(depth, below) == depth + 1 + HandlerFrames + below > RecursionLimit

(***************************************************************************)
(* The code as operators.  They give the value of a call that stays within *)
(* the recursion limit.                                                    *)
(***************************************************************************)
\* main.py 54-64: [ret |-> the value returned, color |-> color afterwards]
RECURSIVE has_cycle_dfs(_, _, _)
RECURSIVE ForNeighbors(_, _, _, _)
has_cycle_dfs(g, c, node_id) == ForNeighbors(g, MarkInProgress(c, node_id), node_id, 1)

\* main.py 57-64: the loop of has_cycle_dfs from its k-th neighbour on
ForNeighbors(g, c, node_id, k) ==
    IF NeighborsExhausted(g, node_id, k)
    THEN [ret |-> FALSE, color |-> MarkDone(c, node_id)]
    ELSE LET neighbor == g[node_id][k] IN
         IF IsBackEdge(c, neighbor) THEN [ret |-> TRUE, color |-> c]
         ELSE IF IsUnvisited(c, neighbor)
              THEN LET sub == has_cycle_dfs(g, c, neighbor) IN
                   IF sub.ret THEN sub
                   ELSE ForNeighbors(g, sub.color, node_id, k + 1)
              ELSE ForNeighbors(g, c, node_id, k + 1)

\* main.py 67-72: the loop over the nodes from position k on:
\* [ret |-> the value is_dag returns, color |-> color at that point]
RECURSIVE ForNodes(_, _, _, _)
ForNodes(ns, g, c, k) ==
    IF NodesExhausted(ns, k) THEN [ret |-> TRUE, color |-> c]
    ELSE IF IsUnvisited(c, ns[k])
         THEN LET sub == has_cycle_dfs(g, c, ns[k]) IN
              IF sub.ret THEN [ret |-> FALSE, color |-> sub.color]
              ELSE ForNodes(ns, g, sub.color, k + 1)
         ELSE ForNodes(ns, g, c, k + 1)

\* main.py 34-72
is_dag(ns, es) ==
    IF EarlyReturn(ns, es) THEN TRUE
    ELSE ForNodes(ns, BuildGraph(ns, es), InitColor(ns), 1).ret

\* main.py 79-115: pe is what the print calls do, [request, result, error]
parse_pipeline(ns, es, pe) ==
    IF pe.request # <<>> THEN Except(pe.request[1], pe)
    ELSE Return(num_nodes(ns), num_edges(es), is_dag(ns, es), pe)

(***************************************************************************)
(* The state machine.                                                      *)
(***************************************************************************)
Reqs == DOMAIN pc

\* main.py 46, 52: graph and color are locals of the is_dag activation of
\* request r; has_cycle_dfs reads them through its closure
\* (variant: graph and color are module-level, one for all requests)
ScopeShared(r) == 1
Scope(r) == r

\* main.py 82-97: a print call of the request's fields raises
PrintRaises(r) == print_error[r].request # <<>>

\* main.py 104-115: the handler of request r ends with outcome x
Ends(r, x) ==
    /\ pc' = [pc EXCEPT ![r] = After(x)]
    /\ response' = [response EXCEPT ![r] = <<x>>]

\* main.py 102-115: is_dag has returned d to the handler of request r
IsDagReturns(r, d) ==
    Ends(r, Return(num_nodes(nodes[r]), num_edges(edges[r]), d, print_error[r]))

\* main.py 80-115, 42-52: the handler prints the request; if a print raises
\* the except clause is entered and is_dag is not called; else it counts
\* and calls is_dag, which returns at once or binds graph and color
ParsePipelineEntry(r) ==
    /\ pc[r] = "start"
    /\ IF PrintRaises(r)
       THEN /\ Ends(r, Except(print_error[r].request[1], print_error[r]))
            /\ UNCHANGED <<allocated, graph, color>>
       ELSE IF EarlyReturn(nodes[r], edges[r])
       THEN /\ IsDagReturns(r, TRUE)
            /\ UNCHANGED <<allocated, graph, color>>
       ELSE /\ pc' = [pc EXCEPT ![r] = "loop"]
            /\ allocated' = [allocated EXCEPT ![Scope(r)] = TRUE]
            /\ graph' = [graph EXCEPT ![Scope(r)] = BuildGraph(nodes[r], edges[r])]
            /\ color' = [color EXCEPT ![Scope(r)] = InitColor(nodes[r])]
            /\ UNCHANGED response
    /\ UNCHANGED <<callers, print_error, nodes, edges, i, stack, entered>>

\* main.py 54-55: a call of has_cycle_dfs(n) by request r, or RecursionError
\* (caught at main.py 113) when the frame does not fit
Call(r, n) ==
    IF TooDeep(Len(stack[r]), callers[r])
    THEN /\ Ends(r, Except(RecursionErrorText, print_error[r]))
         /\ stack' = [stack EXCEPT ![r] = <<>>]
         /\ UNCHANGED <<color, entered>>
    ELSE /\ pc' = [pc EXCEPT ![r] = "dfs"]
         /\ color' = [color EXCEPT ![Scope(r)] = MarkInProgress(@, n)]
         /\ stack' = [stack EXCEPT ![r] = Append(@, [node_id |-> n, k |-> 1])]
         /\ entered' = [entered EXCEPT ![r] = Append(@, n)]
         /\ UNCHANGED response

\* main.py 67-69: the next node is unvisited and seeds a traversal
LoopSeed(r) ==
    /\ pc[r] = "loop"
    /\ ~NodesExhausted(nodes[r], i[r])
    /\ IsUnvisited(color[Scope(r)], nodes[r][i[r]])
    /\ Call(r, nodes[r][i[r]])
    /\ UNCHANGED <<callers, print_error, nodes, edges, allocated, graph, i>>

\* main.py 67-68: the next node is already coloured
LoopSkip(r) ==
    /\ pc[r] = "loop"
    /\ ~NodesExhausted(nodes[r], i[r])
    /\ ~IsUnvisited(color[Scope(r)], nodes[r][i[r]])
    /\ i' = [i EXCEPT ![r] = @ + 1]
    /\ UNCHANGED <<callers, print_error, nodes, edges, pc, allocated, graph, color, stack, response, entered>>

\* main.py 72, 102-115: no node is left, is_dag returns True, the handler ends
LoopExit(r) ==
    /\ pc[r] = "loop"
    /\ NodesExhausted(nodes[r], i[r])
    /\ IsDagReturns(r, TRUE)
    /\ UNCHANGED <<callers, print_error, nodes, edges, allocated, graph, color, i, stack, entered>>

Top(r) == stack[r][Len(stack[r])]
Neighbor(r) == graph[Scope(r)][Top(r).node_id][Top(r).k]
InLoop(r) ==
    /\ pc[r] = "dfs"
    /\ ~NeighborsExhausted(graph[Scope(r)], Top(r).node_id, Top(r).k)

\* main.py 58-59, 61, 69-70, 102-115: the neighbour is gray; True is returned
\* through every frame, is_dag returns False, the handler ends
BackEdge(r) ==
    /\ InLoop(r)
    /\ IsBackEdge(color[Scope(r)], Neighbor(r))
    /\ IsDagReturns(r, FALSE)
    /\ stack' = [stack EXCEPT ![r] = <<>>]
    /\ UNCHANGED <<callers, print_error, nodes, edges, allocated, graph, color, i, entered>>

\* main.py 60: the neighbour is white; has_cycle_dfs recurses into it
Recurse(r) ==
    /\ InLoop(r)
    /\ ~IsBackEdge(color[Scope(r)], Neighbor(r))
    /\ IsUnvisited(color[Scope(r)], Neighbor(r))
    /\ Call(r, Neighbor(r))
    /\ UNCHANGED <<callers, print_error, nodes, edges, allocated, graph, i>>

\* main.py 57-60: the neighbour is black; the loop goes on
SkipDone(r) ==
    /\ InLoop(r)
    /\ ~IsBackEdge(color[Scope(r)], Neighbor(r))
    /\ ~IsUnvisited(color[Scope(r)], Neighbor(r))
    /\ stack' = [stack EXCEPT ![r][Len(stack[r])].k = @ + 1]
    /\ UNCHANGED <<callers, print_error, nodes, edges, pc, allocated, graph, color, i, response, entered>>

\* main.py 63-64: the neighbours are exhausted; the node turns black and
\* has_cycle_dfs returns False, to its caller's loop (main.py 60) or to the
\* loop of is_dag (main.py 69)
Finish(r) ==
    /\ pc[r] = "dfs"
    /\ NeighborsExhausted(graph[Scope(r)], Top(r).node_id, Top(r).k)
    /\ color' = [color EXCEPT ![Scope(r)] = MarkDone(@, Top(r).node_id)]
    /\ IF Len(stack[r]) = 1
       THEN /\ stack' = [stack EXCEPT ![r] = <<>>]
            /\ pc' = [pc EXCEPT ![r] = "loop"]
            /\ i' = [i EXCEPT ![r] = @ + 1]
       ELSE /\ stack' = [stack EXCEPT ![r] =
                   [SubSeq(@, 1, Len(@) - 1) EXCEPT ![Len(@) - 1].k = @ + 1]]
            /\ UNCHANGED <<pc, i>>
    /\ UNCHANGED <<callers, print_error, nodes, edges, allocated, graph, response, entered>>

Next ==
    \/ \E r \in Reqs : ParsePipelineEntry(r)
    \/ \E r \in Reqs : LoopSeed(r)
    \/ \E r \in Reqs : LoopSkip(r)
    \/ \E r \in Reqs : LoopExit(r)
    \/ \E r \in Reqs : BackEdge(r)
    \/ \E r \in Reqs : Recurse(r)
    \/ \E r \in Reqs : SkipDone(r)
    \/ \E r \in Reqs : Finish(r)

(***************************************************************************)
(* Inputs.                                                                 *)
(***************************************************************************)
Ids == {"a", "b", "c"}
MaxNodes == 3
MaxEdges == 3

SeqsUpTo(S, n) == UNION {[1..k -> S] : k \in 0..n}
EdgesOver(S) == [source : S, target : S]

\* what the print calls of lines 82-97 do with a request's fields: they
\* return, or one raises (here: a lone surrogate in a field, which the
\* utf-8 output stream cannot encode).  The text of the error gives the
\* place of the surrogate in the line printed: 18 when it is the type of a
\* node (line 89, after "  1. ID: a, Type: "), 21 when it is a handle of an
\* edge (lines 94-95, after "      Source Handle: ")
SurrogateErrorText ==
    "'utf-8' codec can't encode character '\\ud800' in position 18: surrogates not allowed"
SurrogateHandleErrorText ==
    "'utf-8' codec can't encode character '\\ud800' in position 21: surrogates not allowed"
ClosedFileErrorText == "I/O operation on closed file."
Printed == [request |-> <<>>, result |-> <<>>, error |-> <<>>]

\* the ways the print calls fail: a field of a node, or of an edge, that
\* the stream cannot encode (the error text can be printed); a stream that
\* is closed from the start, or from the result print on, or for the result
\* print only
PrintFailures ==
    {[request |-> <<SurrogateErrorText>>, result |-> <<>>, error |-> <<>>],
     [request |-> <<SurrogateHandleErrorText>>, result |-> <<>>, error |-> <<>>],
     [request |-> <<ClosedFileErrorText>>, result |-> <<ClosedFileErrorText>>,
      error |-> <<ClosedFileErrorText>>],
     [request |-> <<>>, result |-> <<ClosedFileErrorText>>,
      error |-> <<ClosedFileErrorText>>],
     [request |-> <<>>, result |-> <<ClosedFileErrorText>>, error |-> <<>>]}

\* main.py 88-95: the type of a node is printed only if there is a node,
\* the handle of an edge only if there is an edge
Possible(ns, es, pe) ==
    /\ ~(pe.request = <<SurrogateErrorText>> /\ ns = <<>>)
    /\ ~(pe.request = <<SurrogateHandleErrorText>> /\ es = <<>>)

\* the state of `rs` requests just received, request r called with cs[r]
\* frames in use (1: parse_pipeline called from module level) and the print
\* calls ending as ps[r]
Received(rs, cs, ps, ns, es) ==
    /\ callers = cs
    /\ print_error = ps
    /\ nodes = ns
    /\ edges = es
    /\ pc = [r \in rs |-> "start"]
    /\ allocated = [r \in rs |-> FALSE]
    /\ graph = [r \in rs |-> EmptyGraph(<<>>)]
    /\ color = [r \in rs |-> InitColor(<<>>)]
    /\ i = [r \in rs |-> 1]
    /\ stack = [r \in rs |-> <<>>]
    /\ response = [r \in rs |-> <<>>]
    /\ entered = [r \in rs |-> <<>>]

\* one request: over every node list and edge list within the bounds, its
\* print calls returning; and over the shorter lists, its print calls
\* failing in each way.  An edge whose endpoint is not in the node list is
\* a dangling edge
PrintMaxNodes == 2
PrintMaxEdges == 2

Init ==
    \/ \E ns \in SeqsUpTo(Ids, MaxNodes), es \in SeqsUpTo(EdgesOver(Ids), MaxEdges) :
           Received({1}, [r \in {1} |-> 1], [r \in {1} |-> Printed],
                    [r \in {1} |-> ns], [r \in {1} |-> es])
    \/ \E ns \in SeqsUpTo(Ids, PrintMaxNodes),
          es \in SeqsUpTo(EdgesOver(Ids), PrintMaxEdges),
          pe \in PrintFailures :
           /\ Possible(ns, es, pe)
           /\ Received({1}, [r \in {1} |-> 1], [r \in {1} |-> pe],
                       [r \in {1} |-> ns], [r \in {1} |-> es])

Spec == Init /\ [][Next]_vars

\* one request over two ids and longer lists, for the permutations of the
\* edge list; its print calls return
PermIds == {"a", "b"}
PermMaxNodes == 3
PermMaxEdges == 4

PermInit ==
    \E ns \in SeqsUpTo(PermIds, PermMaxNodes),
       es \in SeqsUpTo(EdgesOver(PermIds), PermMaxEdges) :
        Received({1}, [r \in {1} |-> 1], [r \in {1} |-> Printed],
                 [r \in {1} |-> ns], [r \in {1} |-> es])

SpecPerm == PermInit /\ [][Next]_vars

\* two requests in flight at once (the server runs a "def" handler on a
\* thread pool), their steps interleaved in every order: over every pair of
\* inputs within the bounds, their print calls returning; and over three
\* inputs (no edge, the path a -> b, the cycle a -> b -> a), the print calls
\* of each request returning or failing in each way
PairIds == {"a", "b"}
PairMaxNodes == 2
PairMaxEdges == 1
PairPrintInputs ==
    {[nodes |-> <<"a">>, edges |-> <<>>],
     [nodes |-> <<"a", "b">>, edges |-> <<[source |-> "a", target |-> "b"]>>],
     [nodes |-> <<"a", "b">>, edges |-> <<[source |-> "a", target |-> "b"],
                                          [source |-> "b", target |-> "a"]>>]}

PairInit ==
    \/ \E ns \in [{1, 2} -> SeqsUpTo(PairIds, PairMaxNodes)],
          es \in [{1, 2} -> SeqsUpTo(EdgesOver(PairIds), PairMaxEdges)] :
           Received({1, 2}, [r \in {1, 2} |-> 1], [r \in {1, 2} |-> Printed], ns, es)
    \/ \E in \in [{1, 2} -> PairPrintInputs],
          pe \in [{1, 2} -> PrintFailures \cup {Printed}] :
           /\ \A r \in {1, 2} : Possible(in[r].nodes, in[r].edges, pe[r])
           /\ Received({1, 2}, [r \in {1, 2} |-> 1], pe,
                       [r \in {1, 2} |-> in[r].nodes], [r \in {1, 2} |-> in[r].edges])

SpecPair == PairInit /\ [][Next]_vars

\* one request, its print calls returning, whose nodes "1", "2", ..., "n"
\* form the chain
\* 1 -> 2 -> ... -> n: called with 1 to MaxCallerFrames frames in use, on the
\* chain as deep as the recursion limit then allows and on the chain one
\* deeper; and called from module level on the chain of three nodes
\* followed by the edge 3 -> 1 or by the edge 1 -> 3
MaxCallerFrames == 4
DeepestChain(below) == RecursionLimit - HandlerFrames - below
ChainNodes(n) == [k \in 1..n |-> ToString(k)]
ChainEdges(n) == [k \in 1..(n - 1) |-> [source |-> ToString(k), target |-> ToString(k + 1)]]
ChainInputs ==
    {[callers |-> below, nodes |-> ChainNodes(n), edges |-> ChainEdges(n)] :
        <<below, n>> \in {q \in (1..MaxCallerFrames) \X (1..RecursionLimit) :
            q[2] \in {DeepestChain(q[1]), DeepestChain(q[1]) + 1}}}
    \cup
    {[callers |-> 1, nodes |-> ChainNodes(3), edges |-> Append(ChainEdges(3), e)] :
        e \in {[source |-> ToString(3), target |-> ToString(1)],
               [source |-> ToString(1), target |-> ToString(3)]}}

DeepInit ==
    \E in \in ChainInputs :
        Received({1}, [r \in {1} |-> in.callers], [r \in {1} |-> Printed],
                 [r \in {1} |-> in.nodes], [r \in {1} |-> in.edges])

SpecDeep == DeepInit /\ [][Next]_vars

(***************************************************************************)
(* What the claims speak of, defined without the code's operators.         *)
(***************************************************************************)
Done(r) == pc[r] = "done"
Verdict(r) == response[r][1].is_dag

\* the arcs of the filtered graph: the edges with both ends among the node ids
Arcs(ns, es) ==
    {<<es[k].source, es[k].target>> : k \in {j \in 1..Len(es) :
        es[j].source \in NodeIds(ns) /\ es[j].target \in NodeIds(ns)}}

\* the pairs joined by a path of at least one and at most n + 1 arcs of R
RECURSIVE Paths(_, _)
Paths(R, n) ==
    IF n = 0 THEN R
    ELSE LET P == Paths(R, n - 1) IN
         P \cup {<<x[1], y[2]>> : <<x, y>> \in {q \in P \X R : q[1][2] = q[2][1]}}

Reaches(ns, es) == Paths(Arcs(ns, es), Cardinality(NodeIds(ns)))
HasDirectedCycle(ns, es) == \E n \in NodeIds(ns) : <<n, n>> \in Reaches(ns, es)

\* the edge list without its dangling edges
WithoutDangling(ns, es) ==
    SelectSeq(es, LAMBDA e : e.source \in NodeIds(ns) /\ e.target \in NodeIds(ns))

\* the targets, in input order, of the edges from n to an id of the set ids
TargetsWithin(ids, es, n) ==
    LET kept == SelectSeq(es, LAMBDA e : e.source = n /\ e.target \in ids)
    IN [k \in 1..Len(kept) |-> kept[k].target]

\* Permutations(S) of module TLC: the bijections of S onto S
Permuted(es, p) == [k \in 1..Len(es) |-> es[p[k]]]

\* the node list without the later occurrences of an id
RECURSIVE Distinct(_)
Distinct(ns) ==
    IF ns = <<>> THEN <<>>
    ELSE LET front == Distinct(SubSeq(ns, 1, Len(ns) - 1))
             last == ns[Len(ns)]
         IN IF last \in NodeIds(front) THEN front ELSE Append(front, last)

NoRepeat(q) == Cardinality({q[k] : k \in 1..Len(q)}) = Len(q)
OnStack(r) == {stack[r][k].node_id : k \in 1..Len(stack[r])}
Colored(r, c) == {n \in DOMAIN color[r] : color[r][n] = c}

(***************************************************************************)
(* The claims.                                                             *)
(***************************************************************************)
\* C1: is_dag returns true exactly when the filtered graph (the node ids, and
\* the edges with both ends among them) has no directed cycle: both the value
\* the operator gives and the verdict a finished request answers with.
C1_VerdictIffAcyclic ==
    \A r \in Reqs : Done(r) =>
        LET acyclic == ~HasDirectedCycle(nodes[r], edges[r])
        IN /\ Verdict(r) = acyclic
           /\ is_dag(nodes[r], edges[r]) = acyclic

\* C1 witness: a finished request whose three edges are a simple cycle through
\* three distinct nodes, answered false.
C1_Witness ==
    /\ Done(1) /\ Verdict(1) = FALSE
    /\ Len(nodes[1]) = 3 /\ NoRepeat(nodes[1])
    /\ edges[1] = <<[source |-> nodes[1][1], target |-> nodes[1][2]],
                    [source |-> nodes[1][2], target |-> nodes[1][3]],
                    [source |-> nodes[1][3], target |-> nodes[1][1]]>>

\* C2: a dangling edge is left out of the adjacency structure and of the
\* traversal but is counted: num_edges is the length of the raw edge list,
\* graph lists under each node id the targets of its edges to node ids and
\* nothing else, and the verdict is the verdict of the input without the
\* dangling edges.
C2_DanglingEdges ==
    \A r \in Reqs :
        /\ allocated[r] =>
            LET ids == NodeIds(nodes[r])
            IN \A n \in DOMAIN graph[r] :
                   graph[r][n] = TargetsWithin(ids, edges[r], n)
        /\ Done(r) =>
            /\ response[r][1].num_edges = Len(edges[r])
            /\ Verdict(r) = is_dag(nodes[r], WithoutDangling(nodes[r], edges[r]))

\* C2 witness: a finished request whose two edges close a "cycle" through an
\* id that is no node; both are counted and the verdict is true.
C2_Witness ==
    /\ Done(1) /\ Verdict(1) = TRUE
    /\ Len(nodes[1]) = 2 /\ NoRepeat(nodes[1])
    /\ \E z \in Ids \ NodeIds(nodes[1]) :
           edges[1] = <<[source |-> nodes[1][1], target |-> z],
                        [source |-> z, target |-> nodes[1][1]]>>
    /\ response[1][1].num_edges = 2
    /\ \A n \in DOMAIN graph[1] : graph[1][n] = <<>>

\* C3: every permutation of the edge list gives the verdict of the edge list.
C3_OrderIndependent ==
    \A r \in Reqs : Done(r) =>
        \A p \in Permutations(1..Len(edges[r])) :
            /\ is_dag(nodes[r], Permuted(edges[r], p)) = Verdict(r)
            /\ is_dag(nodes[r], Permuted(edges[r], p)) = is_dag(nodes[r], edges[r])

\* C3 witness: a finished request answered false, and a permutation of its
\* edges that gives another neighbour order and leaves other nodes gray.
C3_Witness ==
    /\ Done(1) /\ Verdict(1) = FALSE
    /\ \E p \in Permutations(1..Len(edges[1])) :
           LET es == Permuted(edges[1], p)
               g == BuildGraph(nodes[1], es)
               run == ForNodes(nodes[1], g, InitColor(nodes[1]), 1)
           IN /\ g # graph[1]
              /\ run.ret = FALSE
              /\ {n \in DOMAIN run.color : run.color[n] = Gray} # Colored(1, Gray)

\* C4: with no node or no edge, is_dag returns true at once: graph and color
\* are never bound and has_cycle_dfs is never called; a request that reaches
\* is_dag (its print calls returned) goes from received to answered in one
\* step, and the answer says true.
C4_EmptyInput ==
    \A r \in Reqs : (nodes[r] = <<>> \/ edges[r] = <<>>) =>
        /\ is_dag(nodes[r], edges[r]) = TRUE
        /\ ~allocated[r]
        /\ entered[r] = <<>>
        /\ print_error[r] = Printed => pc[r] \in {"start", "done"}
        /\ Done(r) => response[r] = <<Answer(Len(nodes[r]), Len(edges[r]), TRUE)>>

\* C4 witness: a finished request with no node and some edge.
C4_Witness ==
    /\ Done(1) /\ nodes[1] = <<>> /\ edges[1] # <<>>
    /\ Verdict(1) = TRUE /\ ~allocated[1]

\* C5: an edge from a node to itself makes the verdict false, whatever else
\* the input holds; a node whose own id is the neighbour examined is gray.
C5_SelfLoop ==
    \A r \in Reqs :
        /\ (Done(r) /\ \E k \in 1..Len(edges[r]) :
                /\ edges[r][k].source = edges[r][k].target
                /\ edges[r][k].source \in NodeIds(nodes[r]))
           => (Verdict(r) = FALSE /\ is_dag(nodes[r], edges[r]) = FALSE)
        /\ (InLoop(r) /\ Neighbor(r) = Top(r).node_id)
           => color[r][Neighbor(r)] = Gray

\* C5 witness: a finished request answered false whose only cycle is the
\* self-loop on its last node, the other nodes being done.
C5_Witness ==
    /\ Done(1) /\ Verdict(1) = FALSE
    /\ Len(nodes[1]) = 3 /\ NoRepeat(nodes[1])
    /\ Len(edges[1]) = 2
    /\ edges[1][2] = [source |-> nodes[1][3], target |-> nodes[1][3]]
    /\ edges[1][1] = [source |-> nodes[1][1], target |-> nodes[1][2]]
    /\ Colored(1, Black) = {nodes[1][1], nodes[1][2]}

\* C6: the loop of is_dag leaves no node behind it unvisited, and seeds in
\* input order; a cycle makes the verdict false also when the nodes before
\* it are done.
C6_EveryComponent ==
    \A r \in Reqs :
        /\ (allocated[r] /\ pc[r] \in {"loop", "dfs"}) =>
               \A k \in 1..Len(nodes[r]) :
                   k < i[r] => color[r][nodes[r][k]] = Black
        /\ (pc[r] = "dfs") => stack[r][1].node_id = nodes[r][i[r]]
        /\ (Done(r) /\ HasDirectedCycle(nodes[r], edges[r])) => Verdict(r) = FALSE
        /\ (Done(r) /\ allocated[r] /\ Verdict(r)) =>
               Colored(r, Black) = NodeIds(nodes[r])

\* C6 witness: a finished request answered false whose first node, with an
\* edge of its own, was done before the cycle was met from a later seed.
C6_Witness ==
    /\ Done(1) /\ Verdict(1) = FALSE
    /\ i[1] > 1
    /\ color[1][nodes[1][1]] = Black
    /\ edges[1][1].source = nodes[1][1]
    /\ graph[1][nodes[1][1]] # <<>>
    /\ Len(entered[1]) = 3

\* C9: with a repeated node id, num_nodes counts every supplied node, graph
\* and color have one key per distinct id, no id is entered twice, and the
\* verdict is the verdict over the distinct ids.
C9_DuplicateIds ==
    \A r \in Reqs :
        /\ allocated[r] =>
            /\ DOMAIN graph[r] = NodeIds(nodes[r])
            /\ DOMAIN color[r] = NodeIds(nodes[r])
        /\ NoRepeat(entered[r])
        /\ Done(r) =>
            /\ response[r][1].num_nodes = Len(nodes[r])
            /\ Verdict(r) = is_dag(Distinct(nodes[r]), edges[r])

\* C9 witness: a finished request whose node list repeats an id that was
\* entered, answered true after the loop passed every occurrence.
C9_Witness ==
    /\ Done(1) /\ Verdict(1) = TRUE /\ allocated[1]
    /\ Len(nodes[1]) = 3 /\ nodes[1][1] = nodes[1][3] /\ nodes[1][1] # nodes[1][2]
    /\ response[1][1].num_nodes = 3
    /\ Len(entered[1]) = 2
    /\ i[1] = 4

\* C10: until a cycle is reported, the gray nodes are the nodes of the
\* recursion stack, each once; a frame's callee is the neighbour the frame is
\* at; and every neighbour of a black node is black.
C10_Coloring ==
    \A r \in Reqs : (allocated[r] /\ pc[r] \in {"loop", "dfs"}) =>
        /\ Colored(r, Gray) = OnStack(r)
        /\ NoRepeat([k \in 1..Len(stack[r]) |-> stack[r][k].node_id])
        /\ \A k \in 1..(Len(stack[r]) - 1) :
               /\ stack[r][k].k \in 1..Len(graph[r][stack[r][k].node_id])
               /\ graph[r][stack[r][k].node_id][stack[r][k].k] = stack[r][k + 1].node_id
        /\ \A n \in Colored(r, Black) : \A k \in 1..Len(graph[r][n]) :
               color[r][graph[r][n][k]] = Black

\* C10 witness: two frames on the stack, the inner one at a black neighbour.
C10_Witness ==
    /\ pc[1] = "dfs" /\ Len(stack[1]) = 2
    /\ InLoop(1) /\ Neighbor(1) \in Colored(1, Black)

\* C7: graph and color belong to one call: a request past the early return
\* has bound its own, they are the graph of its own input and the colours of
\* its own ids, whatever the other request does; every answer is the one the
\* request gets when run alone (the dict, or the HTTPException or the other
\* exception when a print call raises), and equal inputs get equal answers.
\* (A request whose print of its fields raises never calls is_dag.)
C7_Isolation ==
    /\ \A r \in Reqs :
        /\ (pc[r] # "start" /\ nodes[r] # <<>> /\ edges[r] # <<>>
                /\ print_error[r].request = <<>>) => allocated[r]
        /\ allocated[r] =>
            /\ graph[r] = BuildGraph(nodes[r], edges[r])
            /\ DOMAIN color[r] = NodeIds(nodes[r])
            /\ pc[r] \in {"loop", "dfs"} => Colored(r, Gray) = OnStack(r)
        /\ response[r] # <<>> <=> pc[r] \in {"done", "failed", "raised"}
        /\ response[r] # <<>> =>
            /\ response[r] = <<parse_pipeline(nodes[r], edges[r], print_error[r])>>
            /\ Done(r) <=> DOMAIN response[r][1] = {"num_nodes", "num_edges", "is_dag"}
    /\ \A r, q \in Reqs :
        (response[r] # <<>> /\ response[q] # <<>> /\ nodes[r] = nodes[q]
         /\ edges[r] = edges[q] /\ print_error[r] = print_error[q])
            => response[r] = response[q]

\* C7 witness: two requests over the same node list are both in has_cycle_dfs
\* on the same node, and each colour dict holds its own request's colours.
C7_Witness ==
    /\ Reqs = {1, 2}
    /\ nodes[1] = nodes[2] /\ edges[1] # edges[2]
    /\ Done(1) /\ Verdict(1) = FALSE
    /\ pc[2] = "dfs"
    /\ \E n \in DOMAIN color[1] : color[1][n] = Gray /\ color[2][n] = Black

\* C8: is_dag ends with a boolean and never raises: no request fails in it, a
\* request that is not answered can take a step, no id is entered twice, and
\* neither the calls of has_cycle_dfs nor the depth of the recursion exceed
\* the number of distinct ids.
C8_TerminatesWithBoolean ==
    \A r \in Reqs :
        /\ pc[r] \in {"failed", "raised"} =>
               /\ PrintRaises(r) \/ print_error[r].result # <<>>
               /\ response[r] # <<Failure(RecursionErrorText)>>
        /\ pc[r] \in {"done", "failed", "raised"} \/ ENABLED Next
        /\ NoRepeat(entered[r])
        /\ Len(entered[r]) <= Cardinality(NodeIds(nodes[r]))
        /\ Len(stack[r]) <= Cardinality(NodeIds(nodes[r]))
        /\ Done(r) => Verdict(r) \in BOOLEAN
====
